---- MODULE Spec2Model ----
\* A model of package singleflight (generic port): Group.Do, Group.DoChan,
\* Group.doCall and Group.Forget. Every call of Do is an invocation of its
\* own (any number of them may be under way at once); a critical section that
\* is straight-line code between g.mu.Lock() and g.mu.Unlock() is one step.
EXTENDS Integers, Sequences, FiniteSets, TLC

\* ---------------------------------------------------------------- bounds
\* The number of calls of Do, DoChan and Forget in one run, and the same
\* for the runs checked under fair scheduling.
MaxOps == 4
MaxOpsFair == 3

\* ---------------------------------------------------------------- values
Keys == {"a"}

\* ZeroVal is the zero value of B that a fresh call record holds.
ZeroVal == <<"zero", 0>>
PanicValues == {"boom"}

\* The type the Group's value parameter B is instantiated with.
BTypes == {"any", "int"}

NilErr == [kind |-> "nil"]
OrdinaryErr == [kind |-> "error"]
errGoexit == [kind |-> "goexit"]

\* debug.Stack() as a sequence of lines; the first is "goroutine N [status]:".
DebugStack == <<"goroutine N [running]:", "frame">>

\* newPanicError(r): r is the interface value recover() returned, so the type
\* parameter is inferred as any, whatever B the Group has.
newPanicError(r) ==
    [kind |-> "panic", typ |-> "any", value |-> r,
     stack |-> IF Len(DebugStack) >= 1 THEN Tail(DebugStack) ELSE DebugStack]

\* The type assertion c.err.(*panicError[B]).
IsPanicErrorB(err, B) == err.kind = "panic" /\ err.typ = B

\* What the supplier handed in for record c may do: return, panic or call
\* runtime.Goexit. Each caller brings its own supplier: the one that runs for
\* record c returns a value of its own, with an ordinary failure when c is
\* even and with none when c is odd.
Outcomes(c) ==
    {[kind |-> "return", val |-> <<"v", c>>,
      err |-> IF c % 2 = 0 THEN OrdinaryErr ELSE NilErr]}
    \cup {[kind |-> "panic", value |-> r] : r \in PanicValues}
    \cup {[kind |-> "goexit"]}
NoOutcome == [kind |-> "none"]

\* The mutex: free, or held by the doCall of a record.
Free == <<"free", 0>>
ByCall(c) == <<"call", c>>

VARIABLES
    BType,      \* instantiation of B
    mu,         \* g.mu
    workspaces, \* g.workspaces: [isNil, m], m a partial function Key -> call
    calls,      \* heap of call records: key, val, err, dups, chans, waitGroup
    chanBuf,    \* heap of channels: buf (capacity ChanCap), call
    callers,    \* the invocations of Do: pc, c, role
    exec,       \* per record: the doCall activation
    crashed,    \* the process died of an unrecovered panic
    ops,        \* number of API calls made
    results,    \* the results Do returned (history)
    attached,   \* per record: number of duplicates that attached (history)
    forgotten   \* records evicted by Forget while in flight (history)

vars == <<BType, mu, workspaces, calls, chanBuf, callers, exec, crashed, ops,
          results, attached, forgotten>>

CallIds == 1..Len(calls)
ChanIds == 1..Len(chanBuf)
CallerIds == 1..Len(callers)

Init ==
    /\ BType \in BTypes
    /\ mu = Free
    /\ workspaces = [isNil |-> TRUE, m |-> <<>>]
    /\ calls = <<>>
    /\ chanBuf = <<>>
    /\ callers = <<>>
    /\ exec = <<>>
    /\ crashed = FALSE
    /\ ops = 0
    /\ results = {}
    /\ attached = <<>>
    /\ forgotten = {}

\* ---------------------------------------------------------------- helpers
\* if g.workspaces == nil { g.workspaces = make(...) }
MakeIfNil(ws) == IF ws.isNil THEN [isNil |-> FALSE, m |-> <<>>] ELSE ws

\* A delete that removes nothing.
DeleteNothing(ws, k) == ws

\* delete(g.workspaces, key); a no-op on a nil map or an absent key.
Delete(ws, k) ==
    [ws EXCEPT !.m = [x \in (DOMAIN ws.m) \ {k} |-> ws.m[x]]]

\* A registration that is lost: the new record never reaches the registry.
InsertDropped(ws, k, c) == ws

\* g.workspaces[key] = c
Insert(ws, k, c) ==
    [ws EXCEPT !.m = [x \in (DOMAIN ws.m) \cup {k} |-> IF x = k THEN c ELSE ws.m[x]]]

\* c, ok := g.workspaces[key]
Has(ws, k) == k \in DOMAIN ws.m

\* new(call[B]) followed by c.waitGroup.Add(1)
NewCall(k, chs) ==
    [key |-> k, val |-> ZeroVal, err |-> NilErr, dups |-> 0, chans |-> chs,
     waitGroup |-> 1]

\* The locals of a doCall activation; inline tells whether it runs on the
\* thread of the Do that created the record or on a goroutine of its own.
NewExec(inline) ==
    [pc |-> "start", inline |-> inline, normalReturn |-> FALSE,
     recovered |-> FALSE, i |-> 1, outcome |-> NoOutcome]

\* An unbuffered channel.
ChanCapUnbuffered == 1 - 1

\* make(chan ResultContainer[B], 1)
ChanCap == 1
NewChan(c) == [buf |-> <<>>, call |-> c]

\* An off-by-one in the shared flag.
SharedOffByOne(c) == calls[c].dups > 1

\* c.dups > 0, the shared flag of the creator's return and of the envelopes
Shared(c) == calls[c].dups > 0

\* An envelope that leaves the failure out.
ResultContainerNoErr(c) ==
    [val |-> calls[c].val, err |-> NilErr, shared |-> Shared(c)]

\* ResultContainer[B]{c.val, c.err, c.dups > 0}
ResultContainer(c) ==
    [val |-> calls[c].val, err |-> calls[c].err, shared |-> Shared(c)]

\* A duplicate that does not look for errGoexit.
AfterWaitNoGoexit(c) ==
    IF IsPanicErrorB(calls[c].err, BType) THEN "panicked" ELSE "returned"

\* What a duplicate does once c.waitGroup.Wait() is over: panic(e) for a
\* panicError[B], runtime.Goexit() for errGoexit, a return otherwise.
AfterWait(c) ==
    IF IsPanicErrorB(calls[c].err, BType) THEN "panicked"
    ELSE IF calls[c].err = errGoexit THEN "goexited"
    ELSE "returned"

\* ---------------------------------------------------------------- Do
\* Do, the duplicate branch: Lock; c.dups++; Unlock; then c.waitGroup.Wait()
DoAttach(k) ==
    /\ ~crashed /\ ops < MaxOps /\ mu = Free
    /\ LET ws == MakeIfNil(workspaces)
       IN /\ Has(ws, k)
          /\ LET c == ws.m[k]
             IN /\ calls' = [calls EXCEPT ![c].dups = @ + 1]
                /\ attached' = [attached EXCEPT ![c] = @ + 1]
                /\ callers' = Append(callers, [pc |-> "wait", c |-> c, role |-> "dup"])
          /\ workspaces' = ws
    /\ ops' = ops + 1
    /\ UNCHANGED <<BType, mu, chanBuf, exec, crashed, results, forgotten>>

\* Do, the new-call branch: Lock; c := new(call); Add(1); insert; Unlock;
\* g.doCall(c, key, fn) on the caller's thread
DoCreate(k) ==
    /\ ~crashed /\ ops < MaxOps /\ mu = Free
    /\ LET ws == MakeIfNil(workspaces)
           c == Len(calls) + 1
       IN /\ ~Has(ws, k)
          /\ calls' = Append(calls, NewCall(k, <<>>))
          /\ exec' = Append(exec, NewExec(TRUE))
          /\ attached' = Append(attached, 0)
          /\ workspaces' = Insert(ws, k, c)
          /\ callers' = Append(callers, [pc |-> "doCall", c |-> c, role |-> "creator"])
    /\ ops' = ops + 1
    /\ UNCHANGED <<BType, mu, chanBuf, crashed, results, forgotten>>

\* The duplicate after c.waitGroup.Wait(): re-panic, Goexit, or return
\* c.val, c.err, true.
DoWake(i) ==
    /\ ~crashed /\ i \in CallerIds /\ callers[i].pc = "wait"
    /\ LET c == callers[i].c
       IN /\ calls[c].waitGroup = 0
          /\ callers' = [callers EXCEPT ![i].pc = AfterWait(c)]
          /\ IF AfterWait(c) # "returned"
             THEN UNCHANGED results
             ELSE results' = results \cup
                        {[call |-> c, role |-> "dup", via |-> "Do", id |-> i,
                          val |-> calls[c].val, err |-> calls[c].err,
                          shared |-> TRUE]}
    /\ UNCHANGED <<BType, mu, workspaces, calls, chanBuf, exec, crashed, ops,
                   attached, forgotten>>

\* The creator after g.doCall(c, key, fn): return c.val, c.err, c.dups > 0;
\* a panic or a Goexit out of doCall unwinds through Do instead.
DoReturn(i) ==
    /\ ~crashed /\ i \in CallerIds /\ callers[i].pc = "doCall"
    /\ LET c == callers[i].c
       IN \/ /\ exec[c].pc = "returned"
             /\ callers' = [callers EXCEPT ![i].pc = "returned"]
             /\ results' = results \cup
                    {[call |-> c, role |-> "creator", via |-> "Do", id |-> i,
                      val |-> calls[c].val, err |-> calls[c].err,
                      shared |-> Shared(c)]}
          \/ /\ exec[c].pc = "panicked"
             /\ callers' = [callers EXCEPT ![i].pc = "panicked"]
             /\ UNCHANGED results
          \/ /\ exec[c].pc = "goexit"
             /\ callers' = [callers EXCEPT ![i].pc = "goexited"]
             /\ UNCHANGED results
    /\ UNCHANGED <<BType, mu, workspaces, calls, chanBuf, exec, crashed, ops,
                   attached, forgotten>>

\* ---------------------------------------------------------------- DoChan
\* DoChan, the duplicate branch: ch := make(chan, 1); Lock; c.dups++;
\* c.chans = append(c.chans, ch); Unlock; return ch
DoChanAttach(k) ==
    /\ ~crashed /\ ops < MaxOps /\ mu = Free
    /\ LET ws == MakeIfNil(workspaces)
           ch == Len(chanBuf) + 1
       IN /\ Has(ws, k)
          /\ LET c == ws.m[k]
             IN /\ calls' = [calls EXCEPT ![c].dups = @ + 1,
                                          ![c].chans = Append(@, ch)]
                /\ attached' = [attached EXCEPT ![c] = @ + 1]
                /\ chanBuf' = Append(chanBuf, NewChan(c))
          /\ workspaces' = ws
    /\ ops' = ops + 1
    /\ UNCHANGED <<BType, mu, callers, exec, crashed, results, forgotten>>

\* DoChan, the new-call branch: c := &call{chans: {ch}}; Add(1); insert;
\* Unlock; go g.doCall(c, key, fn); return ch
DoChanCreate(k) ==
    /\ ~crashed /\ ops < MaxOps /\ mu = Free
    /\ LET ws == MakeIfNil(workspaces)
           c == Len(calls) + 1
           ch == Len(chanBuf) + 1
       IN /\ ~Has(ws, k)
          /\ calls' = Append(calls, NewCall(k, <<ch>>))
          /\ exec' = Append(exec, NewExec(FALSE))
          /\ attached' = Append(attached, 0)
          /\ chanBuf' = Append(chanBuf, NewChan(c))
          /\ workspaces' = Insert(ws, k, c)
    /\ ops' = ops + 1
    /\ UNCHANGED <<BType, mu, callers, crashed, results, forgotten>>

\* ---------------------------------------------------------------- doCall
\* doCall reaches c.val, c.err = fn(): the supplier starts running.
CallFn(c) ==
    /\ ~crashed /\ c \in CallIds /\ exec[c].pc = "start"
    /\ exec' = [exec EXCEPT ![c].pc = "fn"]
    /\ UNCHANGED <<BType, mu, workspaces, calls, chanBuf, callers, crashed, ops,
                   results, attached, forgotten>>

\* The supplier ends. A normal return stores val and err and sets
\* normalReturn; a panic is recovered by the inner deferred function, which
\* stores newPanicError(r), and doCall then sets recovered; runtime.Goexit
\* leaves both flags false.
FnEnd(c, o) ==
    /\ ~crashed /\ c \in CallIds /\ exec[c].pc = "fn"
    /\ o \in Outcomes(c)
    /\ \/ /\ o.kind = "return"
          /\ calls' = [calls EXCEPT ![c].val = o.val, ![c].err = o.err]
          /\ exec' = [exec EXCEPT ![c].pc = "deferred", ![c].outcome = o,
                                  ![c].normalReturn = TRUE]
       \/ /\ o.kind = "panic"
          /\ calls' = [calls EXCEPT ![c].err = newPanicError(o.value)]
          /\ exec' = [exec EXCEPT ![c].pc = "deferred", ![c].outcome = o,
                                  ![c].recovered = TRUE]
       \/ /\ o.kind = "goexit"
          /\ calls' = calls
          /\ exec' = [exec EXCEPT ![c].pc = "deferred", ![c].outcome = o]
    /\ UNCHANGED <<BType, mu, workspaces, chanBuf, callers, crashed, ops,
                   results, attached, forgotten>>

\* The outer deferred function: store errGoexit when neither flag is set,
\* then g.mu.Lock().
DeferLock(c) ==
    /\ ~crashed /\ c \in CallIds /\ exec[c].pc = "deferred"
    /\ mu = Free
    /\ calls' = IF ~exec[c].normalReturn /\ ~exec[c].recovered
                THEN [calls EXCEPT ![c].err = errGoexit]
                ELSE calls
    /\ mu' = ByCall(c)
    /\ exec' = [exec EXCEPT ![c].pc = "locked"]
    /\ UNCHANGED <<BType, workspaces, chanBuf, callers, crashed, ops, results,
                   attached, forgotten>>

\* A deferred function that goes on without c.waitGroup.Done().
DeferDoneSkipped(c) ==
    /\ ~crashed /\ c \in CallIds /\ exec[c].pc = "locked"
    /\ exec' = [exec EXCEPT ![c].pc = "done"]
    /\ UNCHANGED <<BType, mu, workspaces, calls, chanBuf, callers, crashed, ops,
                   results, attached, forgotten>>

\* c.waitGroup.Done()
DeferDone(c) ==
    /\ ~crashed /\ c \in CallIds /\ exec[c].pc = "locked"
    /\ calls' = [calls EXCEPT ![c].waitGroup = @ - 1]
    /\ exec' = [exec EXCEPT ![c].pc = "done"]
    /\ UNCHANGED <<BType, mu, workspaces, chanBuf, callers, crashed, ops,
                   results, attached, forgotten>>

\* A wrapper that leaves its entry in the registry.
DeleteIfSameNever(ws, k, c) == ws

\* A wrapper that deletes whatever entry the key has.
DeleteAlways(ws, k, c) == Delete(ws, k)

\* if g.workspaces[key] == c { delete(g.workspaces, key) }
DeleteIfSame(ws, k, c) ==
    IF Has(ws, k) /\ ws.m[k] = c THEN Delete(ws, k) ELSE ws

\* A wrapper that does not tell errGoexit from a normal return.
ClassifyNoGoexit(c) ==
    IF IsPanicErrorB(calls[c].err, BType)
    THEN IF Len(calls[c].chans) > 0 THEN "select" ELSE "panicked"
    ELSE "send"

\* Where the deferred function goes after the entry is released: a
\* panicError[B] with channels registered starts `go panic(e)` and blocks in
\* select{}; without channels it panics; errGoexit does nothing more;
\* anything else is a normal return and goes on to the send loop.
Classify(c) ==
    IF IsPanicErrorB(calls[c].err, BType)
    THEN IF Len(calls[c].chans) > 0 THEN "select" ELSE "panicked"
    ELSE IF calls[c].err = errGoexit THEN "goexit"
    ELSE "send"

\* The entry is released and the outcome classified. In select{} the mutex
\* stays held; on a panic and on Goexit the deferred g.mu.Unlock() runs on
\* the way out.
DeferDelete(c) ==
    /\ ~crashed /\ c \in CallIds /\ exec[c].pc = "done"
    /\ workspaces' = DeleteIfSame(workspaces, calls[c].key, c)
    /\ exec' = [exec EXCEPT ![c].pc = Classify(c), ![c].i = 1]
    /\ mu' = IF Classify(c) \in {"panicked", "goexit"} THEN Free ELSE mu
    /\ UNCHANGED <<BType, calls, chanBuf, callers, crashed, ops, results,
                   attached, forgotten>>

\* One iteration of: for _, ch := range c.chans { ch <- ResultContainer{...} }
\* The send blocks while the channel's buffer is full.
DeferSend(c) ==
    /\ ~crashed /\ c \in CallIds /\ exec[c].pc = "send"
    /\ exec[c].i <= Len(calls[c].chans)
    /\ LET ch == calls[c].chans[exec[c].i]
       IN /\ Len(chanBuf[ch].buf) < ChanCap
          /\ chanBuf' = [chanBuf EXCEPT ![ch].buf = Append(@, ResultContainer(c))]
    /\ exec' = [exec EXCEPT ![c].i = @ + 1]
    /\ UNCHANGED <<BType, mu, workspaces, calls, callers, crashed, ops, results,
                   attached, forgotten>>

\* The loop is over: the deferred g.mu.Unlock() runs and doCall returns.
DeferUnlock(c) ==
    /\ ~crashed /\ c \in CallIds /\ exec[c].pc = "send"
    /\ exec[c].i > Len(calls[c].chans)
    /\ mu' = Free
    /\ exec' = [exec EXCEPT ![c].pc = "returned"]
    /\ UNCHANGED <<BType, workspaces, calls, chanBuf, callers, crashed, ops,
                   results, attached, forgotten>>

\* The goroutine started by `go panic(e)` panics with nothing to recover it:
\* the process dies.
Crash(c) ==
    /\ ~crashed /\ c \in CallIds /\ exec[c].pc = "select"
    /\ crashed' = TRUE
    /\ UNCHANGED <<BType, mu, workspaces, calls, chanBuf, callers, exec, ops,
                   results, attached, forgotten>>

\* ---------------------------------------------------------------- Forget
\* A Forget that also fires the completion signal of the record it evicts.
ForgetAndRelease(k) ==
    /\ ~crashed /\ ops < MaxOps /\ mu = Free
    /\ workspaces' = Delete(workspaces, k)
    /\ forgotten' = IF Has(workspaces, k)
                    THEN forgotten \cup {workspaces.m[k]}
                    ELSE forgotten
    /\ calls' = IF Has(workspaces, k)
                THEN [calls EXCEPT ![workspaces.m[k]].waitGroup = @ - 1]
                ELSE calls
    /\ ops' = ops + 1
    /\ UNCHANGED <<BType, mu, chanBuf, callers, exec, crashed, results,
                   attached>>

\* Lock; delete(g.workspaces, key); Unlock
Forget(k) ==
    /\ ~crashed /\ ops < MaxOps /\ mu = Free
    /\ workspaces' = Delete(workspaces, k)
    /\ forgotten' = IF Has(workspaces, k)
                    THEN forgotten \cup {workspaces.m[k]}
                    ELSE forgotten
    /\ ops' = ops + 1
    /\ UNCHANGED <<BType, mu, calls, chanBuf, callers, exec, crashed, results,
                   attached>>

\* ---------------------------------------------------------------- system
Ids == 1..MaxOps

Next ==
    \/ \E k \in Keys : DoAttach(k)
    \/ \E k \in Keys : DoCreate(k)
    \/ \E i \in Ids : DoWake(i)
    \/ \E i \in Ids : DoReturn(i)
    \/ \E k \in Keys : DoChanAttach(k)
    \/ \E k \in Keys : DoChanCreate(k)
    \/ \E c \in Ids : CallFn(c)
    \/ \E c \in Ids : \E o \in Outcomes(c) : FnEnd(c, o)
    \/ \E c \in Ids : DeferLock(c)
    \/ \E c \in Ids : DeferDone(c)
    \/ \E c \in Ids : DeferDelete(c)
    \/ \E c \in Ids : DeferSend(c)
    \/ \E c \in Ids : DeferUnlock(c)
    \/ \E c \in Ids : Crash(c)
    \/ \E k \in Keys : Forget(k)

Spec == Init /\ [][Next]_vars

\* The steps of the goroutine that runs doCall for record c once its
\* supplier has ended, and of the caller i of Do once it can go on. The Go
\* scheduler runs every runnable goroutine and sync.Mutex hands the lock to
\* every waiter in the end. Nothing makes a supplier end or a caller call.
Wrapper(c) ==
    DeferLock(c) \/ DeferDone(c) \/ DeferDelete(c) \/ DeferSend(c) \/ DeferUnlock(c)
Caller(i) == DoWake(i) \/ DoReturn(i)

Fairness ==
    /\ \A c \in Ids : WF_vars(CallFn(c))
    /\ \A c \in Ids : WF_vars(Wrapper(c))
    /\ \A c \in Ids : WF_vars(Crash(c))
    /\ \A i \in Ids : WF_vars(Caller(i))

\* Next with the calls of Do, DoChan and Forget bounded by MaxOpsFair.
FairNext ==
    \/ \E k \in Keys : ops < MaxOpsFair /\ DoAttach(k)
    \/ \E k \in Keys : ops < MaxOpsFair /\ DoCreate(k)
    \/ \E i \in Ids : DoWake(i)
    \/ \E i \in Ids : DoReturn(i)
    \/ \E k \in Keys : ops < MaxOpsFair /\ DoChanAttach(k)
    \/ \E k \in Keys : ops < MaxOpsFair /\ DoChanCreate(k)
    \/ \E c \in Ids : CallFn(c)
    \/ \E c \in Ids : \E o \in Outcomes(c) : FnEnd(c, o)
    \/ \E c \in Ids : DeferLock(c)
    \/ \E c \in Ids : DeferDone(c)
    \/ \E c \in Ids : DeferDelete(c)
    \/ \E c \in Ids : DeferSend(c)
    \/ \E c \in Ids : DeferUnlock(c)
    \/ \E c \in Ids : Crash(c)
    \/ \E k \in Keys : ops < MaxOpsFair /\ Forget(k)

FairSpec == Init /\ [][FairNext]_vars /\ Fairness

\* ---------------------------------------------------------------- history
\* A record's execution is in flight from its creation until its doCall has
\* returned, panicked or gone away with Goexit.
Finished(c) == exec[c].pc \in {"returned", "panicked", "goexit"}
InFlight(c) == ~Finished(c)
RecordsOf(k) == {c \in CallIds : calls[c].key = k}

\* The envelopes the channels have received, as results.
ChanResults ==
    UNION {{[call |-> chanBuf[ch].call, role |-> "chan", via |-> "DoChan",
             id |-> ch, val |-> chanBuf[ch].buf[j].val,
             err |-> chanBuf[ch].buf[j].err,
             shared |-> chanBuf[ch].buf[j].shared] :
                j \in 1..Len(chanBuf[ch].buf)} : ch \in ChanIds}

\* Every result a caller obtained: from Do or through a DoChan channel.
AllResults == results \cup ChanResults

\* ---------------------------------------------------------------- claims
\* C1: for every key, as long as no Forget evicted a record of that key
\* while it was in flight, at most one execution for the key is in flight.
C1_AtMostOneInFlight ==
    \A k \in Keys :
        (\A c \in forgotten : calls[c].key # k)
            => Cardinality({c \in RecordsOf(k) : InFlight(c)}) <= 1

\* A duplicate attached while the supplier was running, with no Forget so
\* far, after an earlier execution for the same key had finished.
C1_Witness ==
    /\ forgotten = {}
    /\ \E c1, c2 \in CallIds :
          /\ c1 < c2 /\ calls[c1].key = calls[c2].key
          /\ Finished(c1)
          /\ exec[c2].pc = "fn" /\ attached[c2] > 0

\* C2: every result a joiner of a record obtains is the (value, failure)
\* pair that the record's supplier returned.
C2_ResultIsWhatSupplierReturned ==
    \A r \in AllResults :
        LET o == exec[r.call].outcome
        IN o.kind = "return" /\ r.val = o.val /\ r.err = o.err

\* C3: a delivered result says shared exactly when a duplicate attached to
\* its record.
C3_SharedIffJoined ==
    \A r \in AllResults : r.shared = (attached[r.call] > 0)

\* Results of both kinds exist: a shared one handed to a creator and to its
\* duplicate, and an unshared one.
C3_Witness ==
    \E r1, r2, r3 \in AllResults :
        /\ r1.call = r2.call /\ r1.role = "creator" /\ r2.role # "creator"
        /\ r1.shared /\ r2.shared
        /\ ~r3.shared


\* C4 as stated: once the doCall of its record is over, every channel DoChan
\* returned holds exactly one envelope.
C4_EveryChannelGetsOne ==
    \A ch \in ChanIds :
        exec[chanBuf[ch].call].pc \in {"returned", "panicked", "goexit", "select"}
            => Len(chanBuf[ch].buf) = 1

\* C4 as amended: no channel ever holds more than one envelope; a channel
\* whose supplier ended by Goexit, or panicked in a Group whose B is any,
\* holds none; under fair scheduling a channel whose supplier returned
\* normally receives its envelope, unless the process crashes first.
C4_EnvelopeAfterNormalReturn ==
    /\ [](\A ch \in ChanIds : Len(chanBuf[ch].buf) <= 1)
    /\ [](\A ch \in ChanIds :
            LET o == exec[chanBuf[ch].call].outcome
            IN (o.kind = "goexit" \/ (o.kind = "panic" /\ BType = "any"))
                  => chanBuf[ch].buf = <<>>)
    /\ \A ch \in Ids :
          (ch \in ChanIds /\ exec[chanBuf[ch].call].outcome.kind = "return")
            ~> (crashed \/ (ch \in ChanIds /\ Len(chanBuf[ch].buf) = 1))

\* The creator's channel and a duplicate's channel of one record both hold
\* their envelope after a normal return.
C4_Witness ==
    \E c \in CallIds :
        /\ exec[c].outcome.kind = "return" /\ exec[c].pc = "returned"
        /\ Len(calls[c].chans) >= 2
        /\ \A n \in 1..Len(calls[c].chans) : Len(chanBuf[calls[c].chans[n]].buf) = 1

\* C5: a creator in Do whose supplier panicked, with no duplicate and no
\* channel on the record, does not return a result.
C5_PanicIsNotReturned ==
    \A i \in CallerIds :
        LET c == callers[i].c
        IN (/\ callers[i].role = "creator"
            /\ exec[c].outcome.kind = "panic"
            /\ calls[c].dups = 0 /\ calls[c].chans = <<>>)
                => callers[i].pc # "returned"

\* C6: a duplicate of Do on a record whose supplier ended by Goexit is still
\* waiting or has itself gone through Goexit; it never returns or panics.
C6_DuplicateGoexits ==
    \A i \in CallerIds :
        (callers[i].role = "dup" /\ exec[callers[i].c].outcome.kind = "goexit")
            => /\ callers[i].pc \in {"wait", "goexited"}
               /\ \A r \in results : r.id # i

\* A duplicate woke up from a record that ended by Goexit and went the same way.
C6_Witness ==
    \E i \in CallerIds :
        /\ callers[i].role = "dup" /\ callers[i].pc = "goexited"
        /\ exec[callers[i].c].outcome.kind = "goexit"

\* A call of Do or DoChan for key k does its bookkeeping in this step.
Join(k) == DoAttach(k) \/ DoCreate(k) \/ DoChanAttach(k) \/ DoChanCreate(k)

\* The step adds a record for key k, in the registry, with its supplier not
\* yet run, and leaves the existing records alone.
CreatesRecord(k) ==
    /\ Len(calls') = Len(calls) + 1
    /\ \A c \in CallIds : calls'[c] = calls[c]
    /\ calls'[Len(calls')].key = k /\ calls'[Len(calls')].waitGroup = 1
    /\ exec'[Len(calls')].pc = "start"
    /\ Has(workspaces', k) /\ workspaces'.m[k] = Len(calls')

\* C7: a join for key k that comes when the executions for k have completed
\* (the completion signal of every record of k has fired) creates a new
\* record, whose supplier is still to run.
C7_NoCaching ==
    [][\A k \in Keys :
          (/\ RecordsOf(k) # {}
           /\ \A c \in RecordsOf(k) : calls[c].waitGroup = 0
           /\ Join(k)) => CreatesRecord(k)]_vars

\* After a record of the key completed by a normal return, never forgotten,
\* a later join has started a second execution, which hands out its own
\* result.
C7_Witness ==
    \E c1, c2 \in CallIds :
        /\ c1 < c2 /\ calls[c1].key = calls[c2].key
        /\ c1 \notin forgotten /\ exec[c1].outcome.kind = "return"
        /\ \E r1, r2 \in AllResults : r1.call = c1 /\ r2.call = c2 /\ r1.val # r2.val

\* C8: no join ever attaches to a record that Forget evicted, and a join
\* for a key whose in-flight record was evicted, the key being absent from
\* the registry, creates a second record.
C8_JoinAfterForget ==
    [][/\ \A c \in forgotten :
            calls'[c].dups = calls[c].dups /\ calls'[c].chans = calls[c].chans
       /\ \A k \in Keys :
            (/\ \E c \in forgotten : calls[c].key = k /\ InFlight(c)
             /\ ~Has(workspaces, k)
             /\ Join(k)) => CreatesRecord(k)]_vars

\* Two suppliers for the same key are running at once, the first record
\* having been evicted by Forget.
C8_Witness ==
    \E c1, c2 \in CallIds :
        /\ c1 < c2 /\ calls[c1].key = calls[c2].key
        /\ c1 \in forgotten
        /\ exec[c1].pc = "fn" /\ exec[c2].pc = "fn"

\* C9: every result obtained from a record that Forget evicted while it was
\* in flight, and whose supplier returned, is that record's own result.
C9_ForgetLeavesCallAlone ==
    \A r \in AllResults :
        LET o == exec[r.call].outcome
        IN (r.call \in forgotten /\ o.kind = "return")
              => (r.val = o.val /\ r.err = o.err)

\* A duplicate of Do and a channel, both attached to a record before it was
\* evicted, got that record's result although a later execution for the key
\* has returned another one.
C9_Witness ==
    \E r1, r2, r3 \in AllResults :
        /\ r1.call \in forgotten /\ r1.role = "dup"
        /\ r2.call = r1.call /\ r2.role = "chan"
        /\ r3.call > r1.call /\ calls[r3.call].key = calls[r1.call].key
        /\ r3.val # r1.val

\* Every joiner of record c has its result.
AllDelivered(c) ==
    /\ exec[c].pc = "returned"
    /\ \A i \in CallerIds : callers[i].c = c => callers[i].pc = "returned"
    /\ \A n \in 1..Len(calls[c].chans) : chanBuf[calls[c].chans[n]].buf # <<>>

Unshared(c) == {r \in AllResults : r.call = c /\ ~r.shared}

\* C10 as stated: when an execution returned normally and every joiner has
\* its result, exactly one of the results says shared = false.
C10_ExactlyOneUnshared ==
    \A c \in CallIds :
        (exec[c].outcome.kind = "return" /\ AllDelivered(c))
            => Cardinality(Unshared(c)) = 1

\* C10 as amended: at most one result of an execution says shared = false;
\* when the execution returned normally and every joiner has its result
\* there is exactly one if no duplicate attached, and none if one did.
C10_AtMostOneUnshared ==
    \A c \in CallIds :
        /\ Cardinality(Unshared(c)) <= 1
        /\ (exec[c].outcome.kind = "return" /\ AllDelivered(c))
              => Cardinality(Unshared(c)) = IF attached[c] = 0 THEN 1 ELSE 0

\* An execution with two duplicates has handed out three results, all
\* shared, and an execution without duplicates one unshared result.
C10_Witness ==
    \E c1, c2 \in CallIds :
        /\ exec[c1].outcome.kind = "return" /\ AllDelivered(c1)
        /\ attached[c1] = 2 /\ Unshared(c1) = {}
        /\ exec[c2].outcome.kind = "return" /\ AllDelivered(c2)
        /\ attached[c2] = 0 /\ Cardinality(Unshared(c2)) = 1

\* The doCall of record c holds the mutex and cannot go on: it sits in
\* select{}, or its next send finds the channel full.
HolderBlocked(c) ==
    /\ mu = ByCall(c)
    /\ \/ exec[c].pc = "select"
       \/ /\ exec[c].pc = "send" /\ exec[c].i <= Len(calls[c].chans)
          /\ Len(chanBuf[calls[c].chans[exec[c].i]].buf) >= ChanCap

\* The supplier of record c runs, or is about to, with the mutex held by
\* its own thread.
SupplierUnderLock(c) == mu = ByCall(c) /\ exec[c].pc \in {"start", "fn"}

\* The thread that holds the mutex is waiting in c.waitGroup.Wait().
HolderWaits(c) ==
    /\ mu = ByCall(c) /\ exec[c].inline
    /\ \E i \in CallerIds :
          callers[i].c = c /\ callers[i].role = "creator" /\ callers[i].pc = "wait"

\* C11 as stated: the holder of the mutex is never waiting on a completion
\* signal, blocked on a channel send or blocked forever, and no supplier
\* runs with the mutex held by its thread.
C11_LockNeverHeldAcrossBlocking ==
    \A c \in CallIds :
        ~HolderBlocked(c) /\ ~HolderWaits(c) /\ ~SupplierUnderLock(c)

\* C11 as amended: the same, but for one case: the doCall of a record with
\* channels whose supplier panicked (B being any) stays in select{} with the
\* mutex held, while `go panic(e)` brings the process down. A doCall holds
\* the mutex only from its Lock to the end of the deferred function.
C11_LockHeldOnlyForBookkeeping ==
    \A c \in CallIds :
        /\ ~HolderWaits(c) /\ ~SupplierUnderLock(c)
        /\ mu = ByCall(c) => exec[c].pc \in {"locked", "done", "send", "select"}
        /\ HolderBlocked(c) =>
              /\ exec[c].pc = "select" /\ BType = "any"
              /\ exec[c].outcome.kind = "panic" /\ Len(calls[c].chans) > 0

\* A doCall is in its send loop under the mutex, one envelope sent and one
\* to go, while a duplicate of Do waits on the same record.
C11_Witness ==
    \E c \in CallIds :
        /\ mu = ByCall(c) /\ exec[c].pc = "send"
        /\ exec[c].i = 2 /\ Len(calls[c].chans) >= 2
        /\ \E i \in CallerIds : callers[i].c = c /\ callers[i].pc = "wait"

\* C12: a step that raises the duplicate count of a record or adds a
\* channel to it finds the record in the registry with its completion signal
\* pending, and leaves the signal pending.
C12_NoAttachAfterCompletion ==
    [][\A c \in CallIds :
          (calls'[c].dups # calls[c].dups \/ calls'[c].chans # calls[c].chans)
            => /\ calls[c].waitGroup = 1 /\ calls'[c].waitGroup = 1
               /\ Has(workspaces, calls[c].key)
               /\ workspaces.m[calls[c].key] = c]_vars

\* A record with a duplicate has completed and left the registry, and a
\* later join for its key got a record of its own.
C12_Witness ==
    \E c1, c2 \in CallIds :
        /\ c1 < c2 /\ calls[c1].key = calls[c2].key
        /\ c1 \notin forgotten /\ calls[c1].waitGroup = 0 /\ attached[c1] > 0
        /\ calls[c1].dups = attached[c1]
        /\ calls[c2].waitGroup = 1

\* C13: the completion signal of a record only ever goes from pending to
\* fired, in the Done step of the record's own doCall, and once it has fired
\* the record's value and failure stay as they are.
C13_SignalFiresOnce ==
    [][\A c \in CallIds :
          /\ calls'[c].waitGroup # calls[c].waitGroup
                => /\ calls[c].waitGroup = 1 /\ calls'[c].waitGroup = 0
                   /\ DeferDone(c)
          /\ calls[c].waitGroup = 0
                => /\ calls'[c].val = calls[c].val
                   /\ calls'[c].err = calls[c].err]_vars

\* Three records have completed, one in each way.
C13_Witness ==
    \E c1, c2, c3 \in CallIds :
        /\ calls[c1].waitGroup = 0 /\ exec[c1].outcome.kind = "return"
        /\ calls[c2].waitGroup = 0 /\ exec[c2].outcome.kind = "panic"
        /\ calls[c3].waitGroup = 0 /\ exec[c3].outcome.kind = "goexit"

\* C14: a duplicate of Do on a record whose supplier panicked does not
\* return a result.
C14_DuplicateRepanics ==
    \A i \in CallerIds :
        (callers[i].role = "dup" /\ exec[callers[i].c].outcome.kind = "panic")
            => callers[i].pc \in {"wait", "panicked"}

\* The envelope that the channels of record c are due after a normal return.
Due(c) ==
    [val |-> exec[c].outcome.val, err |-> exec[c].outcome.err,
     shared |-> attached[c] > 0]

\* C15: after a normal return no channel of the record holds anything but
\* the one envelope (value, failure, duplicates attached), equal to what the
\* record stores, and once doCall has returned every channel holds it.
C15_EnvelopeOnEveryChannel ==
    \A c \in CallIds :
        exec[c].outcome.kind = "return" =>
            /\ Due(c) = ResultContainer(c) \/ exec[c].pc \in {"fn", "deferred", "locked", "done"}
            /\ \A n \in 1..Len(calls[c].chans) :
                  LET buf == chanBuf[calls[c].chans[n]].buf
                  IN /\ buf \in {<<>>, <<Due(c)>>}
                     /\ exec[c].pc = "returned" => buf = <<Due(c)>>

\* A supplier returned a value with an ordinary failure, and the creator's
\* channel and a duplicate's channel both hold the envelope.
C15_Witness ==
    \E c \in CallIds :
        /\ exec[c].outcome.kind = "return" /\ exec[c].outcome.err = OrdinaryErr
        /\ exec[c].pc = "returned" /\ Len(calls[c].chans) >= 2
        /\ chanBuf[calls[c].chans[1]].buf = <<Due(c)>>
        /\ chanBuf[calls[c].chans[2]].buf = <<Due(c)>>

\* C16: a supplier that ended by Goexit takes its doCall through Lock, Done
\* and the release of the entry only: errGoexit is stored before the signal
\* fires, and at the end the signal has fired, the entry is gone, the mutex
\* is free of it, no channel holds an envelope and nothing panicked.
C16_GoexitOutcome ==
    \A c \in CallIds :
        exec[c].outcome.kind = "goexit" =>
            /\ exec[c].pc \in {"deferred", "locked", "done", "goexit"}
            /\ exec[c].pc # "deferred" => calls[c].err = errGoexit
            /\ \A n \in 1..Len(calls[c].chans) : chanBuf[calls[c].chans[n]].buf = <<>>
            /\ exec[c].pc = "goexit" =>
                  /\ calls[c].waitGroup = 0
                  /\ mu # ByCall(c)
                  /\ ~(Has(workspaces, calls[c].key) /\ workspaces.m[calls[c].key] = c)

\* The doCall of a record with two channels is over after a Goexit.
C16_Witness ==
    \E c \in CallIds :
        /\ exec[c].outcome.kind = "goexit" /\ exec[c].pc = "goexit"
        /\ Len(calls[c].chans) >= 2

\* C17: when the supplier of a record with channels panicked, no channel of
\* the record holds an envelope, and doCall neither returns nor panics on
\* its own goroutine: it ends in select{}, the crash coming from elsewhere.
C17_PanicWithChannels ==
    \A c \in CallIds :
        (exec[c].outcome.kind = "panic" /\ Len(calls[c].chans) > 0) =>
            /\ \A n \in 1..Len(calls[c].chans) : chanBuf[calls[c].chans[n]].buf = <<>>
            /\ exec[c].pc \in {"deferred", "locked", "done", "select"}
            /\ exec[c].pc = "select" => calls[c].waitGroup = 0

\* C18: a record that Forget did not evict and that has not yet released
\* its entry is the one the registry holds for its key, whatever other
\* records of the key complete meanwhile; so at most one record per key that
\* was not evicted is in flight.
C18_OnlyOwnEntryRemoved ==
    /\ \A c \in CallIds :
          (c \notin forgotten /\ exec[c].pc \in {"start", "fn", "deferred", "locked", "done"})
              => Has(workspaces, calls[c].key) /\ workspaces.m[calls[c].key] = c
    /\ \A k \in Keys :
          Cardinality({c \in RecordsOf(k) : InFlight(c) /\ c \notin forgotten}) <= 1

\* The evicted first record has finished; the second, still running, is in
\* the registry and a join has attached to it.
C18_Witness ==
    \E c1, c2 \in CallIds :
        /\ c1 < c2 /\ calls[c1].key = calls[c2].key
        /\ c1 \in forgotten /\ Finished(c1)
        /\ exec[c2].pc = "fn" /\ attached[c2] > 0
        /\ Has(workspaces, calls[c2].key) /\ workspaces.m[calls[c2].key] = c2

\* C19: with the mutex free, every record in the registry has its
\* completion signal pending; with every doCall over, the registry is empty.
C19_EntriesAreTransient ==
    /\ mu = Free =>
          \A k \in DOMAIN workspaces.m : calls[workspaces.m[k]].waitGroup = 1
    /\ (\A c \in CallIds : Finished(c)) => DOMAIN workspaces.m = {}

\* After calls of all three kinds every doCall is over and the registry,
\* once made, is empty.
C19_Witness ==
    /\ Len(calls) >= 2 /\ forgotten # {} /\ chanBuf # <<>> /\ callers # <<>>
    /\ \A c \in CallIds : Finished(c)
    /\ ~workspaces.isNil /\ DOMAIN workspaces.m = {}

\* Invocation i of Do is in c.waitGroup.Wait().
Waits(i) == IF i \in CallerIds THEN callers[i].pc = "wait" ELSE FALSE

\* Invocation i of Do waits on a record whose supplier has ended.
WaitsOnEnded(i) ==
    IF i \in CallerIds
    THEN callers[i].pc = "wait" /\ exec[callers[i].c].outcome # NoOutcome
    ELSE FALSE

\* C20 as stated: under fair scheduling, a duplicate of Do that waits on a
\* record whose supplier has ended, in whichever way, leaves its wait.
C20_NoLostWakeup ==
    \A i \in Ids : WaitsOnEnded(i) ~> ~Waits(i)

\* C20 as amended: it leaves its wait unless the process crashes first,
\* which `go panic(e)` brings about when a supplier panicked on a record with
\* channels.
C20_WakeupUnlessCrashed ==
    \A i \in Ids : WaitsOnEnded(i) ~> (crashed \/ ~Waits(i))

\* A duplicate has left its wait on a record that Forget had evicted.
C20_Witness ==
    \E i \in CallerIds :
        /\ callers[i].role = "dup" /\ callers[i].c \in forgotten
        /\ callers[i].pc \in {"returned", "panicked", "goexited"}

====
